---- MODULE Spec2Model ----
(***************************************************************************)
(* A model of zfp_make_test_data (src/zfp_make_test_data.cpp): the command *)
(* line is parsed, a volume is loaded from a raw file or generated, the    *)
(* zfp codec is configured at a fixed rate and run, and the compressed     *)
(* bytes are written to a file named after the input and the rate.         *)
(*                                                                         *)
(* Strings are sequences of one-character strings, so that the regular     *)
(* expression, std::stoi and std::to_string are modelled by what they do.  *)
(* Offsets and indices are 0-based as in the source; a TLA+ sequence s     *)
(* holds the source's s[k] at s[k + 1].                                    *)
(***************************************************************************)
EXTENDS Integers, Sequences, FiniteSets, TLC

\* Bounds of the model.
MaxDim == 2
MaxBuf == 2
MaxFileLen == 8

(***************************************************************************)
(* Characters and string literals of the source.                           *)
(***************************************************************************)
DigitChars == <<"0","1","2","3","4","5","6","7","8","9">>

Digits == {DigitChars[k] : k \in 1..10}

Letters ==
    {"a","b","c","d","e","f","g","h","i","j","k","l","m","n","o","p","q","r","s","t","u","v","w","x","y","z",
     "A","B","C","D","E","F","G","H","I","J","K","L","M","N","O","P","Q","R","S","T","U","V","W","X","Y","Z"}

\* The class \w of the regular expression of line 162.
WordChars == Letters \cup Digits \cup {"_"}

OPT_H == <<"-","h">>
OPT_CRATE == <<"-","c","r","a","t","e">>
OPT_RAW == <<"-","r","a","w">>
OPT_GEN == <<"-","g","e","n">>
OPT_DIMS == <<"-","d","i","m","s">>

PLANE_X == <<"p","l","a","n","e","_","x">>
QUARTER_SPHERE == <<"q","u","a","r","t","e","r","_","s","p","h","e","r","e">>
SPHERE == <<"s","p","h","e","r","e">>
WAVELET == <<"w","a","v","e","l","e","t">>

UINT8 == <<"u","i","n","t","8">>
UINT16 == <<"u","i","n","t","1","6">>
FLOAT32 == <<"f","l","o","a","t","3","2">>

DOT_RAW == <<".","r","a","w">>
GEN_SUFFIX == <<"_","f","l","o","a","t","3","2",".","g","e","n">>
DOT_CRATE == <<".","c","r","a","t","e">>
DOT_ZFP == <<".","z","f","p">>

(***************************************************************************)
(* Conversions between numbers and strings.                                *)
(***************************************************************************)
DigitVal(c) == CHOOSE d \in 0..9 : DigitChars[d + 1] = c

RECURSIVE to_string(_)
\* std::to_string of an int or an unsigned: decimal, "-" before a negative.
to_string(n) ==
    IF n < 0 THEN <<"-">> \o to_string(0 - n)
    ELSE IF n < 10 THEN <<DigitChars[n + 1]>>
    ELSE to_string(n \div 10) \o <<DigitChars[(n % 10) + 1]>>

RECURSIVE DigitPrefixLen(_, _)
\* The number of digits s holds from offset k on, before the first non-digit.
DigitPrefixLen(s, k) ==
    IF k < Len(s) /\ s[k + 1] \in Digits THEN 1 + DigitPrefixLen(s, k + 1) ELSE 0

RECURSIVE DigitsValue(_, _, _)
\* The decimal value of the n digits of s from offset k on.
DigitsValue(s, k, n) ==
    IF n = 0 THEN 0
    ELSE 10 * DigitsValue(s, k, n - 1) + DigitVal(s[k + n])

\* std::stoi and std::stoul on the tokens of this model (no white space, no
\* sign, a few digits): the value of the leading digits, whatever follows
\* them; without a leading digit std::invalid_argument is thrown (ok is
\* FALSE), which nothing in main catches.
stoi(s) ==
    LET n == DigitPrefixLen(s, 0)
    IN  IF n = 0 THEN [ok |-> FALSE, val |-> 0]
        ELSE [ok |-> TRUE, val |-> DigitsValue(s, 0, n)]

(***************************************************************************)
(* Single-precision values.  A float is held exactly: F(n, d) is n / d     *)
(* with d a power of two, Bits(b) is the float whose four bytes in memory  *)
(* are b (line 203 stores file bytes into the floats without conversion).  *)
(***************************************************************************)
F(n, d) == [n |-> n, d |-> d]

Zero == F(0, 1)

Bits(b) == IF b = <<0, 0, 0, 0>> THEN Zero ELSE [bits |-> b]

RECURSIVE ScaleExp(_, _, _)
\* The least k >= from with p * 2^k >= q * 2^23: the quotient p * 2^k / q
\* then has the 24 significant bits of a float.
ScaleExp(p, q, from) ==
    IF p * (2 ^ from) >= q * (2 ^ 23) THEN from ELSE ScaleExp(p, q, from + 1)

RECURSIVE Reduce(_, _)
\* m / 2^k in lowest terms.
Reduce(m, k) ==
    IF k > 0 /\ m % 2 = 0 THEN Reduce(m \div 2, k - 1) ELSE F(m, 2 ^ k)

\* static_cast<float>(p) / q of line 222 for 0 <= p < q: the IEEE-754
\* quotient, rounded to nearest, ties to even.
F32Div(p, q) ==
    IF p = 0 THEN Zero
    ELSE LET k == ScaleExp(p, q, 0)
             m0 == (p * (2 ^ k)) \div q
             rem == (p * (2 ^ k)) % q
             m == IF 2 * rem > q \/ (2 * rem = q /\ m0 % 2 = 1) THEN m0 + 1 ELSE m0
         IN  Reduce(m, k)

(***************************************************************************)
(* The file-name pattern of line 162,                                      *)
(*     (\w+)_(\d+)x(\d+)x(\d+)_(.+)\.raw                                   *)
(* searched for in the name (std::sregex_iterator: the leftmost match,     *)
(* each quantifier greedy, the name neither anchored at its start nor at   *)
(* its end).                                                               *)
(***************************************************************************)
SubStr(s, from, to) == SubSeq(s, from + 1, to)

HasAt(s, k, lit) == k + Len(lit) <= Len(s) /\ SubStr(s, k, k + Len(lit)) = lit

RECURSIVE WordRunStart(_, _)
\* The least p with s[p .. a-1] all of class \w (a itself when s[a-1] is not).
WordRunStart(s, a) ==
    IF a > 0 /\ s[a] \in WordChars THEN WordRunStart(s, a - 1) ELSE a

\* _(\d+)x(\d+)x(\d+)_ at offset a. A greedy \d+ takes the whole run of
\* digits: a shorter one is followed by a digit, never by the x or _ the
\* pattern wants, so backtracking finds nothing more.
ShapeAt(s, a) ==
    LET n2 == DigitPrefixLen(s, a + 1)
        b == a + 1 + n2
        n3 == DigitPrefixLen(s, b + 1)
        c == b + 1 + n3
        n4 == DigitPrefixLen(s, c + 1)
        d == c + 1 + n4
    IN  [ok |-> /\ HasAt(s, a, <<"_">>) /\ n2 > 0
                /\ HasAt(s, b, <<"x">>) /\ n3 > 0
                /\ HasAt(s, c, <<"x">>) /\ n4 > 0
                /\ HasAt(s, d, <<"_">>),
         b |-> b, c |-> c, d |-> d]

\* Where (.+)\.raw may end after the _ at offset d: the offsets e of a
\* ".raw" with at least one character between (no token holds a line break,
\* the one character . does not match).
TailEnds(s, d) == {e \in (d + 2)..Len(s) : HasAt(s, e, DOT_RAW)}

\* The offsets a of the _ after group 1 from which the rest of the pattern
\* matches, group 1 being non-empty.
ShapeOffsets(s) ==
    {a \in 1..Len(s) : /\ WordRunStart(s, a) < a
                       /\ ShapeAt(s, a).ok
                       /\ TailEnds(s, ShapeAt(s, a).d) # {}}

SetMin(S) == CHOOSE m \in S : \A k \in S : m <= k

SetMax(S) == CHOOSE m \in S : \A k \in S : m >= k

\* The first match of the pattern in s and its sub-matches 2 to 5.
match_filename(s) ==
    IF ShapeOffsets(s) = {} THEN [matched |-> FALSE]
    ELSE LET p == SetMin({WordRunStart(s, a) : a \in ShapeOffsets(s)})
             a == SetMax({k \in ShapeOffsets(s) : WordRunStart(s, k) <= p})
             sh == ShapeAt(s, a)
             e == SetMax(TailEnds(s, sh.d))
         IN  [matched |-> TRUE,
              X |-> SubStr(s, a + 1, sh.b),
              Y |-> SubStr(s, sh.b + 1, sh.c),
              Z |-> SubStr(s, sh.c + 1, sh.d),
              type |-> SubStr(s, sh.d + 1, e)]

(***************************************************************************)
(* The inputs: the argument lists the program is started with, and the     *)
(* bytes of the raw file on disk.                                          *)
(***************************************************************************)
CrateTokens == {<<"8">>, <<"0">>, <<"3","3">>, <<"x">>}

GenNames == {PLANE_X, QUARTER_SPHERE, SPHERE, WAVELET, <<"c","u","b","e">>}

\* The -dims triples: every shape up to MaxDim, and the shape (4, 1, 1) of
\* the specification's plane_x example.
DimTriples == ((0..MaxDim) \X (0..MaxDim) \X (0..MaxDim)) \cup {<<4, 1, 1>>}

RawShapes == {<<2, 1, 1>>, <<1, 2, 2>>, <<0, 2, 1>>}

RawTypes == {UINT8, UINT16, FLOAT32, <<"i","n","t","1","6">>}

RawName(shape, type) ==
    <<"v","_">> \o to_string(shape[1]) \o <<"x">> \o to_string(shape[2]) \o <<"x">>
        \o to_string(shape[3]) \o <<"_">> \o type \o DOT_RAW

NAME_PLAIN == <<"v",".","r","a","w">>

\* d/a_9x9x9_v_1x2x1_uint8.raw.bak
NAME_NESTED ==
    <<"d","/","a","_","9","x","9","x","9","_","v","_","1","x","2","x","1","_",
      "u","i","n","t","8",".","r","a","w",".","b","a","k">>

RawNames ==
    {RawName(sh, t) : sh \in RawShapes, t \in RawTypes} \cup {NAME_PLAIN, NAME_NESTED}

ModeParts ==
    {<<>>}
    \cup {<<OPT_RAW, f>> : f \in RawNames}
    \cup {<<OPT_GEN, g>> : g \in GenNames}
    \cup {<<OPT_GEN, g, OPT_DIMS, to_string(d[1]), to_string(d[2]), to_string(d[3])>> :
            g \in GenNames, d \in DimTriples}

CrateParts == {<<>>} \cup {<<OPT_CRATE, t>> : t \in CrateTokens}

NAME_U8 == RawName(<<2, 1, 1>>, UINT8)

\* -gen plane_x -dims 8 8 8 -crate 8, the specification's end-to-end example.
ARGS_EXAMPLE ==
    <<OPT_GEN, PLANE_X, OPT_DIMS, <<"8">>, <<"8">>, <<"8">>, OPT_CRATE, <<"8">>>>

\* The example, and argument lists with -h, with both modes, with tokens
\* that are no option, with an option as last token (its value missing) and
\* with a value that is no number.
OtherArgLists ==
    { ARGS_EXAMPLE,
      <<OPT_H>>,
      <<OPT_RAW, OPT_H>>,
      <<OPT_GEN, PLANE_X, OPT_DIMS, <<"2">>, <<"2">>, <<"2">>, OPT_CRATE, <<"8">>, OPT_H>>,
      <<OPT_RAW, NAME_U8, OPT_GEN, PLANE_X, OPT_DIMS, <<"2">>, <<"1">>, <<"1">>, OPT_CRATE, <<"8">>>>,
      <<OPT_DIMS, <<"2">>, <<"1">>, <<"1">>, OPT_CRATE, <<"8">>>>,
      <<<<"-","v","e","r","b","o","s","e">>>>,
      <<OPT_RAW, NAME_U8, OPT_CRATE, <<"8">>, <<"-","v","e","r","b","o","s","e">>>>,
      <<<<"8">>>>,
      <<OPT_RAW, NAME_U8, OPT_CRATE>>,
      <<OPT_CRATE, <<"8">>, OPT_RAW>>,
      <<OPT_CRATE, <<"8">>, OPT_GEN>>,
      <<OPT_GEN, PLANE_X, OPT_DIMS, <<"2">>>>,
      <<OPT_GEN, PLANE_X, OPT_DIMS, <<"2">>, <<"x">>, <<"1">>, OPT_CRATE, <<"8">>>> }

ArgLists ==
    {m \o c : m \in ModeParts, c \in CrateParts}
    \cup {c \o m : m \in ModeParts, c \in CrateParts}
    \cup OtherArgLists

\* The raw file's bytes: any length up to MaxFileLen, the byte at offset k
\* being (first + k) mod 256.
DiskFiles ==
    {[k \in 1..len |-> (first + k - 1) % 256] : len \in 0..MaxFileLen, first \in {1, 255}}

(***************************************************************************)
(* read_raw_volume (lines 158-207).                                        *)
(***************************************************************************)
NumVoxels(dims) == dims[1] * dims[2] * dims[3]

\* Lines 176-183: the byte width of a voxel of the named type, 0 when the
\* name is none of the three.
voxel_size(volume_type) ==
    IF volume_type = UINT8 THEN 1
    ELSE IF volume_type = UINT16 THEN 2
    ELSE IF volume_type = FLOAT32 THEN 4
    ELSE 0

\* The number of bytes fin.read is asked for: read_data.size() on line 191,
\* data.size() on line 203.
read_count(volume_type, num_voxels) ==
    IF volume_type # FLOAT32 THEN num_voxels * voxel_size(volume_type) ELSE num_voxels

\* A buffer of size bytes, all 0, after fin.read(buffer, count) on a file
\* holding the bytes file: the first min(count, Len(file)) bytes are the
\* file's. A file that is missing or cannot be opened reads as an empty one.
ReadInto(size, count, file) ==
    [k \in 1..size |-> IF k <= count /\ k <= Len(file) THEN file[k] ELSE 0]

\* Lines 172-206 for a name that matched, m being its sub-matches: the shape,
\* the voxels, and the byte count asked of the file. The uint16_t of line 197
\* is read in the byte order of a little-endian host.
load_voxels(m, file) ==
    LET dims == <<stoi(m.X).val, stoi(m.Y).val, stoi(m.Z).val>>
        volume_type == m.type
        num_voxels == NumVoxels(dims)
        count == read_count(volume_type, num_voxels)
        read_data == ReadInto(count, count, file)
        float_bytes == ReadInto(4 * num_voxels, count, file)
    IN  [dims |-> dims,
         count |-> count,
         data |->
            [v \in 1..num_voxels |->
                IF volume_type = UINT8 THEN F(read_data[v], 1)
                ELSE IF volume_type = UINT16
                    THEN F(read_data[2 * v - 1] + 256 * read_data[2 * v], 1)
                ELSE IF volume_type = FLOAT32
                    THEN Bits(SubSeq(float_bytes, 4 * v - 3, 4 * v))
                ELSE Zero]]

\* read_raw_volume: false when the name does not match (line 169), true
\* otherwise (line 206).
read_raw_volume(name, file) ==
    LET m == match_filename(name)
    IN  IF ~m.matched THEN [ok |-> FALSE]
        ELSE [ok |-> TRUE] @@ load_voxels(m, file)

(***************************************************************************)
(* generate_volume (lines 209-290).                                        *)
(***************************************************************************)
\* A wrong index: the strides of y and z taken from the wrong axes.
VoxelIndexSwapped(x, y, z, dims) == x + dims[2] * (y + dims[1] * z)

\* Lines 221, 235, 250, 275: where voxel (x, y, z) is stored.
VoxelIndex(x, y, z, dims) == x + dims[1] * (y + dims[2] * z)

\* The voxel of the k-th pass (k from 0) through the innermost loop: x runs
\* fastest, then y, then z.
LoopVoxel(k, dims) ==
    [x |-> k % dims[1],
     y |-> (k \div dims[1]) % dims[2],
     z |-> k \div (dims[1] * dims[2])]

Sq(a) == a * a

\* The value each generator gives voxel (x, y, z). plane_x is computed; the
\* others are kept as the expression the code evaluates: the square root of
\* num / den (quarter_sphere, sphere), and sin(3 cx) + sin(3 cy) + cos(3 cz)
\* with each coordinate c = 2 v / d - 1 held as <<2 v - d, d>> (wavelet).
VoxelValue(name, x, y, z, dims) ==
    IF name = PLANE_X THEN F32Div(x, dims[1])
    ELSE IF name = QUARTER_SPHERE THEN
        [sqrt_num |-> Sq(x) + Sq(y) + Sq(z),
         sqrt_den |-> Sq(dims[1]) + Sq(dims[2]) + Sq(dims[3])]
    ELSE IF name = SPHERE THEN
        [sqrt_num |-> Sq(2 * x - dims[1]) + Sq(2 * y - dims[2]) + Sq(2 * z - dims[3]),
         sqrt_den |-> Sq(dims[1])]
    ELSE
        [sin3x |-> <<2 * x - dims[1], dims[1]>>,
         sin3y |-> <<2 * y - dims[2], dims[2]>>,
         cos3z |-> <<2 * z - dims[3], dims[3]>>]

\* The element each pass of the loops stores to: pass k (from 1) stores to
\* data[LoopStores(dims)[k]].
LoopStores(dims) ==
    [k \in 1..NumVoxels(dims) |->
        LET v == LoopVoxel(k - 1, dims) IN VoxelIndex(v.x, v.y, v.z, dims)]

\* The vector of n zeros after the loops have run: an element keeps the
\* value of the last pass that stored to it, and stores counts the passes
\* that did.
RunLoops(name, dims, n) ==
    LET idx == LoopStores(dims)
        passes(voxel) == {k \in 1..NumVoxels(dims) : idx[k] = voxel}
    IN  [data |->
            [e \in 1..n |->
                IF passes(e - 1) = {} THEN Zero
                ELSE LET v == LoopVoxel(SetMax(passes(e - 1)) - 1, dims)
                     IN  VoxelValue(name, v.x, v.y, v.z, dims)],
         stores |-> [e \in 1..n |-> Cardinality(passes(e - 1))]]

KnownGenerators == {PLANE_X, QUARTER_SPHERE, SPHERE, WAVELET}

\* generate_volume: the vector is resized first (line 213), filled by the
\* named generator, and false is returned for any other name (line 289).
generate_volume(name, dims) ==
    LET n == NumVoxels(dims)
        resized == [data |-> [v \in 1..n |-> Zero], stores |-> [v \in 1..n |-> 0]]
    IN  IF name \in KnownGenerators
        THEN [ok |-> TRUE] @@ RunLoops(name, dims, n)
        ELSE [ok |-> FALSE] @@ resized

\* A wrong stem: the shape written as YxXxZ.
gen_out_name_yxz(name, dims) ==
    name \o <<"_">> \o to_string(dims[2]) \o <<"x">> \o to_string(dims[1]) \o <<"x">>
        \o to_string(dims[3]) \o GEN_SUFFIX

\* Lines 112-114: the output name's stem in generate mode.
gen_out_name(name, dims) ==
    name \o <<"_">> \o to_string(dims[1]) \o <<"x">> \o to_string(dims[2]) \o <<"x">>
        \o to_string(dims[3]) \o GEN_SUFFIX

(***************************************************************************)
(* The codec, as main uses it (lines 119-147). zfp is a library; what is   *)
(* modelled is what its calls return to main.                              *)
(***************************************************************************)
\* A rate is int + frac / BlockValues bits per value, a 3D block of zfp
\* holding 4^3 values.
BlockValues == 4 ^ 3

\* The fewest bits zfp gives a block of floats.
MinBlockBits == 1 + 8

Rate(bits) == [int |-> bits \div BlockValues, frac |-> bits % BlockValues]

RECURSIVE FloatSpacing(_, _)
\* The distance between neighbouring floats around the integer v >= 0.
FloatSpacing(v, s) == IF v < (2 ^ 24) * s THEN s ELSE FloatSpacing(v, 2 * s)

\* The conversion of a rate to float on line 120. The rates of this model
\* with a fraction have an integer part small enough to be held exactly; an
\* integer is rounded to the nearest float, ties to even.
ToFloat(r) ==
    IF r.frac # 0 THEN r
    ELSE LET s == FloatSpacing(r.int, 1)
             q == r.int \div s
             rem == r.int % s
             up == 2 * rem > s \/ (2 * rem = s /\ q % 2 = 1)
         IN  [int |-> (IF up THEN q + 1 ELSE q) * s, frac |-> 0]

\* zfp_stream_set_rate(zfp, rate, zfp_type_float, 3, 0) of line 121: the
\* block gets max(64 rate, 9) bits and the rate returned is bits / 64. For a
\* negative rate zfp converts a negative double to unsigned, which is
\* undefined: the value wraps modulo 2^32 (2^32 - 64 |rate| bits, so a rate
\* of 2^26 - |rate|) or saturates at 0 (then 9 bits), by the build.
zfp_stream_set_rate(rate) ==
    IF rate >= 0
    THEN {ToFloat(Rate(IF BlockValues * rate > MinBlockBits
                       THEN BlockValues * rate ELSE MinBlockBits))}
    ELSE {ToFloat([int |-> 2 ^ 26 + rate, frac |-> 0]), ToFloat(Rate(MinBlockBits))}

\* A check that lets every rate through.
NonIntegerRateNever(r) == FALSE

\* Line 123: std::floor(used_compression_rate) != used_compression_rate.
NonIntegerRate(r) == r.frac # 0

\* Line 150: the output name, int(used_compression_rate) cutting the rate to
\* its integer part.
crate_name(stem, r) == stem \o DOT_CRATE \o to_string(r.int) \o DOT_ZFP

(***************************************************************************)
(* The state of a run of main (lines 49-156).                              *)
(***************************************************************************)
VARIABLES
    args,                   \* the argument vector, argv[1..]
    pc,                     \* where main is
    exit_status,            \* "running", "0", "1", or "killed" (std::terminate
                            \* after an uncaught exception, or a crash)
    i,                      \* the parse loop's index
    compression_rate, raw_volume_mode, gen_volume_mode,
    raw_file_name, gen_mode_name, gen_dims,
    out_name, volume_data, volume_dims,
    raw_file,               \* the bytes of the raw file that was read
    read_bytes,             \* the byte count asked of the raw file, -1 before
    stores,                 \* how often the generator stored to each voxel
    sized,                  \* the shapes that sized a voxel buffer or a field
    used_compression_rate, bufsize, compressed_data, total_bytes,
    handles,                \* the codec objects open: "zfp", "field", "stream"
    calls,                  \* the steps of lines 100-153 made so far, in order
    out_files               \* the files written: [name, bytes]

parsed == <<compression_rate, raw_volume_mode, gen_volume_mode,
            raw_file_name, gen_mode_name, gen_dims>>

volume == <<out_name, volume_data, volume_dims, raw_file, read_bytes, stores, sized>>

codec == <<used_compression_rate, bufsize, compressed_data, total_bytes, handles>>

vars == <<args, pc, exit_status, i, parsed, volume, codec, calls, out_files>>

NoRate == [int |-> 0 - 1, frac |-> 0]

Init ==
    /\ args \in ArgLists
    /\ pc = "help"
    /\ exit_status = "running"
    /\ i = 0
    /\ compression_rate = 0 - 1
    /\ raw_volume_mode = FALSE
    /\ gen_volume_mode = FALSE
    /\ raw_file_name = <<>>
    /\ gen_mode_name = <<>>
    /\ gen_dims = <<0, 0, 0>>
    /\ out_name = <<>>
    /\ volume_data = <<>>
    /\ volume_dims = <<0, 0, 0>>
    /\ raw_file = <<>>
    /\ read_bytes = 0 - 1
    /\ stores = <<>>
    /\ sized = {}
    /\ used_compression_rate = NoRate
    /\ bufsize = 0
    /\ compressed_data = <<>>
    /\ total_bytes = 0
    /\ handles = {}
    /\ calls = <<>>
    /\ out_files = {}

\* return status, or the process being killed.
Exit(status) == pc' = "done" /\ exit_status' = status

\* Lines 54-57.
main_help ==
    /\ pc = "help"
    /\ IF \E k \in 1..Len(args) : args[k] = OPT_H
       THEN Exit("0")
       ELSE pc' = "parse" /\ UNCHANGED exit_status
    /\ UNCHANGED <<args, i, parsed, volume, codec, calls, out_files>>

(***************************************************************************)
(* The parse loop, lines 65-82, one pass per action.                       *)
(***************************************************************************)
\* A token no std::string holds: reading an element that is not there took
\* the process down.
SEGV == <<"SIGSEGV">>

\* What args[k] gives. Past the end of the vector the read is undefined: the
\* process crashes, or goes on with what the memory there holds, taken here
\* as an empty string.
ArgAt(k) == IF k < Len(args) THEN {args[k + 1]} ELSE {SEGV, <<>>}

AtOption(opt) == pc = "parse" /\ i < Len(args) /\ args[i + 1] = opt

\* Line 67.
main_parse_crate ==
    /\ AtOption(OPT_CRATE)
    /\ \E v \in ArgAt(i + 1) :
        IF v = SEGV \/ ~stoi(v).ok
        THEN Exit("killed") /\ UNCHANGED <<i, compression_rate>>
        ELSE /\ compression_rate' = stoi(v).val
             /\ i' = i + 2
             /\ UNCHANGED <<pc, exit_status>>
    /\ UNCHANGED <<args, raw_volume_mode, gen_volume_mode, raw_file_name,
                   gen_mode_name, gen_dims, volume, codec, calls, out_files>>

\* Lines 69-70.
main_parse_raw ==
    /\ AtOption(OPT_RAW)
    /\ \E v \in ArgAt(i + 1) :
        IF v = SEGV
        THEN Exit("killed") /\ UNCHANGED <<i, raw_volume_mode, raw_file_name>>
        ELSE /\ raw_volume_mode' = TRUE
             /\ raw_file_name' = v
             /\ i' = i + 2
             /\ UNCHANGED <<pc, exit_status>>
    /\ UNCHANGED <<args, compression_rate, gen_volume_mode, gen_mode_name,
                   gen_dims, volume, codec, calls, out_files>>

\* Lines 72-73.
main_parse_gen ==
    /\ AtOption(OPT_GEN)
    /\ \E v \in ArgAt(i + 1) :
        IF v = SEGV
        THEN Exit("killed") /\ UNCHANGED <<i, gen_volume_mode, gen_mode_name>>
        ELSE /\ gen_volume_mode' = TRUE
             /\ gen_mode_name' = v
             /\ i' = i + 2
             /\ UNCHANGED <<pc, exit_status>>
    /\ UNCHANGED <<args, compression_rate, raw_volume_mode, raw_file_name,
                   gen_dims, volume, codec, calls, out_files>>

\* Lines 75-77.
main_parse_dims ==
    /\ AtOption(OPT_DIMS)
    /\ \E vx \in ArgAt(i + 1), vy \in ArgAt(i + 2), vz \in ArgAt(i + 3) :
        IF \E v \in {vx, vy, vz} : v = SEGV \/ ~stoi(v).ok
        THEN Exit("killed") /\ UNCHANGED <<i, gen_dims>>
        ELSE /\ gen_dims' = <<stoi(vx).val, stoi(vy).val, stoi(vz).val>>
             /\ i' = i + 4
             /\ UNCHANGED <<pc, exit_status>>
    /\ UNCHANGED <<args, compression_rate, raw_volume_mode, gen_volume_mode,
                   raw_file_name, gen_mode_name, volume, codec, calls, out_files>>

Options == {OPT_CRATE, OPT_RAW, OPT_GEN, OPT_DIMS}

\* Lines 78-81.
main_parse_unrecognized ==
    /\ pc = "parse" /\ i < Len(args) /\ args[i + 1] \notin Options
    /\ Exit("1")
    /\ UNCHANGED <<args, i, parsed, volume, codec, calls, out_files>>

\* Lines 84-95, once the loop has ended.
main_check_modes ==
    /\ pc = "parse" /\ i >= Len(args)
    /\ IF ~raw_volume_mode /\ ~gen_volume_mode THEN Exit("1")
       ELSE IF raw_volume_mode /\ gen_volume_mode THEN Exit("1")
       ELSE IF gen_volume_mode /\ gen_dims = <<0, 0, 0>> THEN Exit("1")
       ELSE pc' = "volume" /\ UNCHANGED exit_status
    /\ UNCHANGED <<args, i, parsed, volume, codec, calls, out_files>>

\* Lines 100-105: raw mode. The file's bytes are the environment's.
main_read_raw ==
    /\ pc = "volume" /\ raw_volume_mode
    /\ \E file \in DiskFiles :
        LET r == read_raw_volume(raw_file_name, file)
        IN  IF ~r.ok
            THEN /\ Exit("1")
                 /\ UNCHANGED volume
            ELSE /\ volume_data' = r.data
                 /\ volume_dims' = r.dims
                 /\ sized' = sized \cup {r.dims}
                 /\ raw_file' = file
                 /\ read_bytes' = r.count
                 /\ out_name' = raw_file_name
                 /\ pc' = "set_rate"
                 /\ UNCHANGED <<exit_status, stores>>
    /\ calls' = Append(calls, "read_raw_volume")
    /\ UNCHANGED <<args, i, parsed, codec, out_files>>

\* Lines 106-115: generate mode.
main_generate ==
    /\ pc = "volume" /\ ~raw_volume_mode
    /\ LET r == generate_volume(gen_mode_name, gen_dims)
       IN  /\ volume_data' = r.data
           /\ stores' = r.stores
           /\ sized' = sized \cup {gen_dims}
           /\ IF ~r.ok
              THEN /\ Exit("1")
                   /\ UNCHANGED <<volume_dims, out_name>>
              ELSE /\ volume_dims' = gen_dims
                   /\ out_name' = gen_out_name(gen_mode_name, gen_dims)
                   /\ pc' = "set_rate"
                   /\ UNCHANGED exit_status
    /\ calls' = Append(calls, "generate_volume")
    /\ UNCHANGED <<args, i, parsed, raw_file, read_bytes, codec, out_files>>

\* Lines 119-122: zfp_stream_open and zfp_stream_set_rate.
main_set_rate ==
    /\ pc = "set_rate"
    /\ handles' = handles \cup {"zfp"}
    /\ \E r \in zfp_stream_set_rate(compression_rate) : used_compression_rate' = r
    /\ calls' = Append(calls, "set_rate")
    /\ pc' = "check_rate"
    /\ UNCHANGED <<args, exit_status, i, parsed, volume, bufsize, compressed_data,
                   total_bytes, out_files>>

\* Lines 123-126.
main_check_rate ==
    /\ pc = "check_rate"
    /\ calls' = Append(calls, "check_rate")
    /\ IF NonIntegerRate(used_compression_rate)
       THEN Exit("1")
       ELSE pc' = "maximum_size" /\ UNCHANGED exit_status
    /\ UNCHANGED <<args, i, parsed, volume, used_compression_rate, bufsize,
                   compressed_data, total_bytes, handles, out_files>>

\* Lines 130-138: the field, zfp_stream_maximum_size (any size from 1 to
\* MaxBuf), the zeroed buffer and the bit stream on it.
main_maximum_size ==
    /\ pc = "maximum_size"
    /\ sized' = sized \cup {volume_dims}
    /\ \E n \in 1..MaxBuf :
        /\ bufsize' = n
        /\ compressed_data' = [k \in 1..n |-> 0]
    /\ handles' = handles \cup {"field", "stream"}
    /\ calls' = Append(calls, "maximum_size")
    /\ pc' = "compress"
    /\ UNCHANGED <<args, exit_status, i, parsed, out_name, volume_data, volume_dims,
                   raw_file, read_bytes, stores, used_compression_rate, total_bytes,
                   out_files>>

\* Lines 140-141: zfp_compress writes total_bytes bytes, at most the
\* buffer's size, shown as 1, and the field is freed.
main_compress ==
    /\ pc = "compress"
    /\ \E n \in 0..bufsize :
        /\ total_bytes' = n
        /\ compressed_data' = [k \in 1..bufsize |-> IF k <= n THEN 1 ELSE 0]
    /\ handles' = handles \ {"field"}
    /\ calls' = Append(calls, "compress")
    /\ pc' = "resize"
    /\ UNCHANGED <<args, exit_status, i, parsed, volume, used_compression_rate,
                   bufsize, out_files>>

\* Lines 143-147: the buffer is cut to total_bytes, the bit stream and the
\* codec stream are closed.
main_resize ==
    /\ pc = "resize"
    /\ compressed_data' = SubSeq(compressed_data, 1, total_bytes)
    /\ handles' = handles \ {"stream", "zfp"}
    /\ calls' = Append(calls, "resize")
    /\ pc' = "write"
    /\ UNCHANGED <<args, exit_status, i, parsed, volume, used_compression_rate,
                   bufsize, total_bytes, out_files>>

\* Lines 150-155: the output file is named, opened, written and, at return,
\* closed. The directory is taken to be writable.
main_write ==
    /\ pc = "write"
    /\ out_name' = crate_name(out_name, used_compression_rate)
    /\ out_files' = out_files \cup {[name |-> out_name', bytes |-> compressed_data]}
    /\ calls' = Append(calls, "write")
    /\ Exit("0")
    /\ UNCHANGED <<args, i, parsed, volume_data, volume_dims, raw_file, read_bytes,
                   stores, sized, used_compression_rate, bufsize, compressed_data,
                   total_bytes, handles>>

Next ==
    \/ main_help
    \/ main_parse_crate
    \/ main_parse_raw
    \/ main_parse_gen
    \/ main_parse_dims
    \/ main_parse_unrecognized
    \/ main_check_modes
    \/ main_read_raw
    \/ main_generate
    \/ main_set_rate
    \/ main_check_rate
    \/ main_maximum_size
    \/ main_compress
    \/ main_resize
    \/ main_write

Spec == Init /\ [][Next]_vars

(***************************************************************************)
(* The claims.                                                             *)
(***************************************************************************)
Done == pc = "done"

Called(step) == \E k \in 1..Len(calls) : calls[k] = step

Given(opt) == \E k \in 1..Len(args) : args[k] = opt

AllPositive(dims) == dims[1] > 0 /\ dims[2] > 0 /\ dims[3] > 0

\* The raw file's name matched the pattern and names a type that is none of
\* uint8, uint16, float32.
UnsupportedEncoding ==
    /\ match_filename(raw_file_name).matched
    /\ match_filename(raw_file_name).type \notin {UINT8, UINT16, FLOAT32}

\* The run ended without a trace on disk and with status 1.
FailedCleanly == exit_status = "1" /\ out_files = {}

\* C1: a run without -h (help exits 0 and writes nothing, as the
\* specification has it) ends either with status 0 and exactly one complete
\* output file, or with status 1 and no output file; the output file is
\* written only after the payload was cut to its final length; and a run
\* that met a file name not matching the pattern, an unsupported encoding,
\* an unknown generator or a non-integer rate ends with status 1 and no file.
C1_TwoOutcomes ==
    /\ (Done /\ ~Given(OPT_H)) =>
          \/ /\ exit_status = "0"
             /\ Cardinality(out_files) = 1
             /\ \A f \in out_files : f.bytes = compressed_data /\ Len(f.bytes) = total_bytes
          \/ FailedCleanly
    /\ out_files # {} => Called("resize")
    /\ (Done /\ Called("read_raw_volume") /\ ~match_filename(raw_file_name).matched)
          => FailedCleanly
    /\ (Done /\ Called("read_raw_volume") /\ UnsupportedEncoding) => FailedCleanly
    /\ (Done /\ Called("generate_volume") /\ gen_mode_name \notin KnownGenerators)
          => FailedCleanly
    /\ (Done /\ Called("check_rate") /\ used_compression_rate.frac # 0) => FailedCleanly

\* C2: once read_raw_volume has been called on a name that matches the
\* pattern with an unrecognized type, the load has failed: the run is over
\* with status 1, nothing was compressed and no file was written.
C2_UnsupportedEncodingFails ==
    (Called("read_raw_volume") /\ UnsupportedEncoding) =>
        /\ Done /\ exit_status = "1"
        /\ calls = <<"read_raw_volume">>
        /\ volume_data = <<>>
        /\ out_files = {}

\* The voxel v (from 1) of a raw file of the given type, widened to float:
\* the byte, the 16-bit value, or the four bytes taken as a float.
FileVoxel(file, v, type) ==
    IF type = UINT8 THEN F(file[v], 1)
    ELSE IF type = UINT16 THEN F(file[2 * v - 1] + 256 * file[2 * v], 1)
    ELSE Bits(<<file[4 * v - 3], file[4 * v - 2], file[4 * v - 1], file[4 * v]>>)

\* C3: after read_raw_volume has loaded a file of a recognized type, it has
\* asked the file for X*Y*Z*width bytes, and when the file holds that many
\* every voxel of the grid is the file's voxel.
C3_ReadsWholeGrid ==
    LET type == match_filename(raw_file_name).type
        need == NumVoxels(volume_dims) * voxel_size(type)
    IN  (Called("read_raw_volume") /\ read_bytes >= 0 /\ type \in {UINT8, UINT16, FLOAT32}) =>
            /\ read_bytes = need
            /\ Len(volume_data) = NumVoxels(volume_dims)
            /\ Len(raw_file) >= need =>
                  \A v \in 1..NumVoxels(volume_dims) :
                      volume_data[v] = FileVoxel(raw_file, v, type)

\* The parse loop ran to the end of the arguments and found one mode.
ParsedOneMode ==
    /\ pc \notin {"help", "parse"}
    /\ i >= Len(args)
    /\ raw_volume_mode # gen_volume_mode

\* C4: a run with one mode whose rate is not given (it is then -1) or not in
\* 1..32 never configures the codec, writes no file, and ends with status 1.
C4_RateRequired ==
    (ParsedOneMode /\ compression_rate \notin 1..32) =>
        /\ ~Called("set_rate")
        /\ out_files = {}
        /\ Done => exit_status = "1"

RECURSIVE FlagOffsets(_, _)
\* The offsets of the tokens of a in flag position from offset k on: each
\* option is followed by its values (three for -dims, one for the others),
\* and the first token that is no option ends the scan.
FlagOffsets(a, k) ==
    IF k >= Len(a) THEN {}
    ELSE IF a[k + 1] = OPT_DIMS THEN {k} \cup FlagOffsets(a, k + 4)
    ELSE IF a[k + 1] \in Options THEN {k} \cup FlagOffsets(a, k + 2)
    ELSE {k}

\* C5: a run without -h that was given both modes, or neither, ends with
\* status 1; so does one with a token in flag position that is no option;
\* and neither loads or generates a volume or writes a file.
C5_UsageErrors ==
    LET modes_wrong == Given(OPT_RAW) = Given(OPT_GEN)
        bad_flag == \E k \in FlagOffsets(args, 0) : args[k + 1] \notin Options
    IN  (~Given(OPT_H) /\ (modes_wrong \/ bad_flag)) =>
            /\ calls = <<>>
            /\ out_files = {}
            /\ Done => exit_status = "1"

\* C7: when the run is over, no codec stream, field or bit stream is open.
C7_AllReleased == Done => handles = {}

\* C9: every shape that sized a voxel buffer or a field descriptor has three
\* components > 0.
C9_ShapesPositive == \A dims \in sized : AllPositive(dims)

PipelineSteps == <<"set_rate", "check_rate", "maximum_size", "compress", "resize", "write">>

\* C6: a rate that is not a whole number ends the run with status 1 right
\* after the check, with no compress call and no output file; and the steps
\* after the volume is there are made in the order set_rate, check_rate,
\* maximum_size, compress, resize, write, so compress and write only follow a
\* check that found the rate whole.
C6_RateCheckedFirst ==
    /\ Len(calls) > 0 =>
          /\ calls[1] \in {"read_raw_volume", "generate_volume"}
          /\ Len(calls) - 1 <= Len(PipelineSteps)
          /\ Tail(calls) = SubSeq(PipelineSteps, 1, Len(calls) - 1)
    /\ (Called("set_rate") /\ used_compression_rate.frac # 0) =>
          /\ ~Called("maximum_size") /\ ~Called("compress") /\ ~Called("write")
          /\ out_files = {}
          /\ Called("check_rate") => (Done /\ exit_status = "1")
    /\ out_files # {} => Called("write")

\* C6's case: a run that the rate check ended.
C6_Witness ==
    /\ Done /\ exit_status = "1"
    /\ Called("check_rate")
    /\ used_compression_rate.frac # 0
    /\ compression_rate = 0

Abs(a) == IF a < 0 THEN 0 - a ELSE a

\* v is p / q as a float: exactly, or within the rounding of one division
\* (a relative error of at most 2^-24).
IsQuotient(v, p, q) ==
    /\ v.n >= 0 /\ v.d > 0
    /\ Abs(v.n * q - p * v.d) * (2 ^ 24) <= p * v.d

\* C8: after generate_volume has run for a known generator and a shape with
\* all components > 0, the grid has x*y*z voxels, each was stored to exactly
\* once, voxel (vx, vy, vz) is at index vx + x*(vy + y*vz), plane_x holds
\* vx / x there whatever vy and vz are, and plane_x on (4, 1, 1) gives
\* 0, 1/4, 1/2, 3/4.
C8_GeneratedGrid ==
    LET x == gen_dims[1]
        y == gen_dims[2]
        z == gen_dims[3]
    IN  (Called("generate_volume") /\ gen_mode_name \in KnownGenerators
            /\ AllPositive(gen_dims)) =>
            /\ Len(volume_data) = x * y * z
            /\ \A e \in 1..(x * y * z) : stores[e] = 1
            /\ \A vx \in 0..(x - 1), vy \in 0..(y - 1), vz \in 0..(z - 1) :
                  LET v == volume_data[1 + vx + x * (vy + y * vz)]
                  IN  IF gen_mode_name = PLANE_X
                      THEN IsQuotient(v, vx, x) /\ v = volume_data[1 + vx]
                      ELSE v = VoxelValue(gen_mode_name, vx, vy, vz, gen_dims)
            /\ (gen_mode_name = PLANE_X /\ gen_dims = <<4, 1, 1>>) =>
                  volume_data = <<F(0, 1), F(1, 4), F(1, 2), F(3, 4)>>

\* C8's case: plane_x generated on the shape (2, 1, 2), whose voxel (1, 0, 1)
\* is the last of four.
C8_Witness ==
    /\ Called("generate_volume")
    /\ gen_mode_name = PLANE_X
    /\ gen_dims = <<2, 1, 2>>
    /\ Len(volume_data) = 4
    /\ volume_data[4] = F(1, 2)

\* plane_x_8x8x8_float32.gen.crate8.zfp
NAME_EXAMPLE_OUT ==
    <<"p","l","a","n","e","_","x","_","8","x","8","x","8","_","f","l","o","a","t","3","2",
      ".","g","e","n",".","c","r","a","t","e","8",".","z","f","p">>

\* The token n places after the last occurrence of opt in the arguments.
ValueAfter(opt, n) == args[SetMax({k \in 1..Len(args) : args[k] = opt}) + n]

\* C10: a run that ended with status 0 after writing has written one file,
\* named <stem>.crate<R>.zfp, R being the achieved rate, a whole number, and
\* the stem the raw file's name (raw mode) or <generator>_<X>x<Y>x<Z>_float32.gen
\* with the -dims values (generate mode); when -crate was given the name is
\* made of the argument tokens alone, so the same invocation always chooses
\* the same name; and -gen plane_x -dims 8 8 8 -crate 8 ends so, with
\* plane_x_8x8x8_float32.gen.crate8.zfp.
C10_OutputName ==
    LET stem == IF raw_volume_mode THEN raw_file_name
                ELSE gen_mode_name \o <<"_">> \o to_string(gen_dims[1]) \o <<"x">>
                        \o to_string(gen_dims[2]) \o <<"x">> \o to_string(gen_dims[3])
                        \o <<"_","f","l","o","a","t","3","2",".","g","e","n">>
        suffix == <<".","c","r","a","t","e">> \o to_string(used_compression_rate.int)
                        \o <<".","z","f","p">>
        arg_stem == IF Given(OPT_RAW) THEN ValueAfter(OPT_RAW, 1)
                    ELSE ValueAfter(OPT_GEN, 1) \o <<"_">> \o ValueAfter(OPT_DIMS, 1)
                            \o <<"x">> \o ValueAfter(OPT_DIMS, 2) \o <<"x">>
                            \o ValueAfter(OPT_DIMS, 3)
                            \o <<"_","f","l","o","a","t","3","2",".","g","e","n">>
        arg_suffix == <<".","c","r","a","t","e">> \o ValueAfter(OPT_CRATE, 1)
                            \o <<".","z","f","p">>
    IN  /\ (Done /\ exit_status = "0" /\ Called("write")) =>
              /\ used_compression_rate.frac = 0
              /\ {f.name : f \in out_files} = {stem \o suffix}
              /\ Cardinality(out_files) = 1
              /\ Given(OPT_CRATE) => {f.name : f \in out_files} = {arg_stem \o arg_suffix}
        /\ (Done /\ args = ARGS_EXAMPLE) =>
              /\ exit_status = "0"
              /\ {f.name : f \in out_files} = {NAME_EXAMPLE_OUT}

\* C10's case: the example run has written its file.
C10_Witness ==
    /\ Done /\ exit_status = "0"
    /\ args = ARGS_EXAMPLE
    /\ \E f \in out_files : f.name = NAME_EXAMPLE_OUT

====
